---- MODULE Spec2Model ----
(***************************************************************************)
(* Model of src/dot_builder.py: the error classifier, the event            *)
(* deduplicator, the cross-source correlator (add_block_nodes) and the     *)
(* graph assembler (process_sub_flow, build_contact_flow_detail,           *)
(* build_module_detail, add_edges) and the multi-interaction composer      *)
(* (build_main_flow, build_main_contacts).                                 *)
(*                                                                         *)
(* Python values are encoded as records with a type tag t:                 *)
(*   Results          [t, v]          v = the words of the text, or the    *)
(*                                    keys of a map                        *)
(*   ExternalResults  [t, isSuccess]                                       *)
(*   a JSON payload   [t, m]          m = the set of <<key, value>> pairs  *)
(* A Python bool/None result is one of the strings "True", "False",        *)
(* "None"; an escaping exception is the string "raise".                    *)
(***************************************************************************)
EXTENDS Integers, Sequences, FiniteSets, TLC

VARIABLES
    logs,              \* the event records handed to the operation
    lambda_logs,       \* function name -> list of function log entries
    xray_store,        \* trace ids the trace collaborator can deliver
    pc,                \* position of the operation under way
    index,             \* loop index of the for loop over logs
    nodes,             \* the ordered node-id list
    dot,               \* the node statements of the graph, in order
    node_cache,        \* the open deduplication buckets (insertion order)
    last_module_type,  \* last_module_type of the build loops
    module_nodes,      \* module name -> summary node id (as set of pairs)
    error_count,       \* the running error count
    edges,             \* the edge statements of the graph, in order
    rendered,          \* artifact path -> rendered sub-graph (set of pairs)
    main_nodes,        \* the summary nodes of build_main_flow's graph
    telemetry,         \* the event records and function logs as read
    is_error,          \* result of the classification expression
    search_contacts,   \* the interaction records build_main_contacts composes
    subgraphs,         \* contact ids that own a cluster sub-graph
    subgraph_nodes,    \* contact id -> node list of its main flow graph
    subcontact_logs,   \* contact id -> event records fetched for it
    subcontact_attr,   \* contact id -> attribute entries (key -> [v, c, i])
    root_contact_ids   \* contact ids linked from the start node, in order

contactVars == <<search_contacts, subgraphs, subgraph_nodes, subcontact_logs,
                 subcontact_attr, root_contact_ids>>

vars == <<logs, lambda_logs, xray_store, pc, index, nodes, dot, node_cache,
          last_module_type, module_nodes, error_count, edges, rendered,
          main_nodes, telemetry, is_error, search_contacts, subgraphs,
          subgraph_nodes, subcontact_logs, subcontact_attr, root_contact_ids>>

----------------------------------------------------------------------------
(* Program constants                                                       *)

ERROR_KEYWORDS ==
    { "Error", "Failed", "Timeout", "Exception", "No prompt provided",
      "Instance has reached concurrent Lambda thread access limit",
      "Unsupported", "Invalid", "not found", "NotDone", "MultipleFound",
      "The Lambda Function Returned An Error." }

DUP_CONTACT_FLOW_MODULE_TYPE == { "SetAttributes", "SetFlowAttributes" }

OMIT_CONTACT_FLOW_MODULE_TYPE == { "InvokeFlowModule" }

----------------------------------------------------------------------------
(* Error classifier                                                        *)

\* any(keyword in log.get('Results', '') for keyword in ERROR_KEYWORDS)
\* `in` on a str is the substring test (here: a word of the text), on a map
\* the key test; on None or a number it raises TypeError.
KeywordTest(log) ==
    LET r == IF log.Results.t = "absent"
             THEN [t |-> "str", v |-> <<>>]
             ELSE log.Results
    IN  IF r.t \in {"none", "int"}
        THEN "raise"
        ELSE IF \E i \in 1..Len(r.v) : r.v[i] \in ERROR_KEYWORDS
             THEN "True"
             ELSE "False"

is_lambda_error_flagless(log) ==
    IF log.ContactFlowModuleType = "InvokeExternalResource"
    THEN IF log.ExternalResults.t # "dict"
         THEN "True"
         ELSE IF log.ExternalResults.isSuccess = "<missing>"
              THEN "True"
              ELSE IF log.ExternalResults.isSuccess = "false"
                   THEN "True"
                   ELSE "None"
    ELSE "False"

is_lambda_error_never(log) ==
    IF log.ContactFlowModuleType = "InvokeExternalResource"
    THEN IF log.ExternalResults.t = "dict"
            /\ log.ExternalResults.isSuccess \notin {"<missing>", "false"}
         THEN "None"
         ELSE "False"
    ELSE "False"

is_lambda_error(log) ==
    IF log.ContactFlowModuleType = "InvokeExternalResource"
    THEN IF log.ExternalResults.t # "dict"
         THEN "False"                      \* except TypeError
         ELSE IF log.ExternalResults.isSuccess = "<missing>"
              THEN "False"                 \* except KeyError
              ELSE IF log.ExternalResults.isSuccess = "false"
                   THEN "True"
                   ELSE "None"             \* falls off the end of the try
    ELSE "False"

\* is_error = any(...) or is_lambda_error(log)
classify(log) ==
    LET kw == KeywordTest(log)
    IN  IF kw = "raise" THEN "raise"
        ELSE IF kw = "True" THEN "True"
        ELSE is_lambda_error(log)

Truthy(v) == v = "True"

----------------------------------------------------------------------------
(* JSON payloads: json.dumps(..., sort_keys=True) and the id&v rule        *)

\* Python's order of the parameter names that occur in the model.
KeyOrder == << "id&v", "idnv", "varsConfig", "x" >>

KeyRank(k) == CHOOSE i \in 1..Len(KeyOrder) : KeyOrder[i] = k

\* The pairs of a map in key order, as json.dumps(sort_keys=True) writes them.
SortedPairs(m) ==
    [ i \in 1..Cardinality(m) |->
        CHOOSE p \in m :
            Cardinality({ q \in m : KeyRank(q[1]) < KeyRank(p[1]) }) = i - 1 ]

\* json.dumps(value, sort_keys=True): "null" for None, "[]" for the empty
\* list, the key-sorted pairs for a map.
json_dumps(p) ==
    IF p.t = "dict"
    THEN [t |-> "{}", s |-> SortedPairs(p.m)]
    ELSE IF p.t = "list"
         THEN [t |-> "[]", s |-> <<>>]
         ELSE [t |-> "null", s |-> <<>>]

\* str.replace("id&v", "idnv") on the serialized text.
replace_idnv(d) ==
    [ d EXCEPT !.s =
        [ i \in 1..Len(d.s) |->
            << IF d.s[i][1] = "id&v" THEN "idnv" ELSE d.s[i][1], d.s[i][2] >> ] ]

HasKey(m, k) == \E p \in m : p[1] = k

DelKey(m, k) == { p \in m : p[1] # k }

\* utils.calculate_timestamp_gap: the absolute gap between two instants.
calculate_timestamp_gap(a, b) == IF a >= b THEN a - b ELSE b - a

\* utils.get_func_name: the function name an ARN designates (ARNs are
\* identified with the names they designate).
get_func_name(arn) == arn

----------------------------------------------------------------------------
(* Cross-source correlator: add_block_nodes and build_xray_dot             *)

\* f"{log['Timestamp'].replace(':', '').replace('.', '')}_{index}"
NodeId(ts, sfx) == [ts |-> ts, sfx |-> sfx]

\* One iteration of `for l in function_logs` (lines 358-385).  acc holds
\* target_logs, the event's log_parameters (aliased and mutated by the loop),
\* the function log list (its entries are mutated too) and whether an
\* exception left the loop.
MatchStep(acc, i, contact_id) ==
    LET l == acc.fl[i] IN
    IF acc.exc \/ l.ContactId # contact_id
    THEN acc
    ELSE IF l.message = "parameter"
    THEN IF replace_idnv(json_dumps(acc.lp)) = replace_idnv(json_dumps(l.parameters))
         THEN [acc EXCEPT !.target = Append(@, i)]
         ELSE acc
    ELSE IF l.message = "Event"
    THEN IF acc.lp.t # "dict"
         THEN [acc EXCEPT !.exc = TRUE]             \* [].items()
         ELSE IF l.event.t \in {"absent", "none"}     \* if l.get("event"):
         THEN acc
         ELSE IF l.event.t # "dict"
         THEN [acc EXCEPT !.exc = TRUE]             \* l["event"]["Details"]
         ELSE LET both  == HasKey(l.event.m, "varsConfig")
                           /\ HasKey(acc.lp.m, "varsConfig")
                  fp    == IF both THEN DelKey(l.event.m, "varsConfig")
                           ELSE l.event.m
                  lp    == IF both THEN DelKey(acc.lp.m, "varsConfig")
                           ELSE acc.lp.m
                  acc2  == [acc EXCEPT !.lp.m = lp, !.fl[i].event.m = fp]
              IN  IF json_dumps([t |-> "dict", m |-> lp])
                       = json_dumps([t |-> "dict", m |-> fp])
                  THEN [acc2 EXCEPT !.target = Append(@, i)]
                  ELSE acc2
    ELSE acc

RECURSIVE MatchLoop(_, _, _)
MatchLoop(acc, i, contact_id) ==
    IF i > Len(acc.fl) THEN acc
    ELSE MatchLoop(MatchStep(acc, i, contact_id), i + 1, contact_id)

\* sys.maxsize, the initial min_gap (taken as the largest 32-bit integer).
sys_maxsize == 2147483647

\* Lines 389-398 with `min_gap >= gap`: the last one on a tie.
RECURSIVE MinGapXid_last(_, _, _, _, _, _)
MinGapXid_last(fl, target, k, ts, min_gap, xid) ==
    IF k > Len(target) THEN xid
    ELSE LET l   == fl[target[k]]
             gap == calculate_timestamp_gap(ts, l.timestamp)
         IN  IF min_gap >= gap
             THEN MinGapXid_last(fl, target, k + 1, ts, gap, l.xray_trace_id)
             ELSE MinGapXid_last(fl, target, k + 1, ts, min_gap, xid)

\* Lines 389-398: the trace id of the closest target (first one on a tie).
RECURSIVE MinGapXid(_, _, _, _, _, _)
MinGapXid(fl, target, k, ts, min_gap, xid) ==
    IF k > Len(target) THEN xid
    ELSE LET l   == fl[target[k]]
             gap == calculate_timestamp_gap(ts, l.timestamp)
         IN  IF min_gap > gap
             THEN MinGapXid(fl, target, k + 1, ts, gap, l.xray_trace_id)
             ELSE MinGapXid(fl, target, k + 1, ts, min_gap, xid)

SelectXid(fl, target, ts) ==
    IF Len(target) > 1 THEN MinGapXid(fl, target, 1, ts, sys_maxsize, "")
    ELSE IF Len(target) = 1 THEN fl[target[1]].xray_trace_id
    ELSE ""

CountLevel(fl, xid, level) ==
    Cardinality({ i \in 1..Len(fl) :
                    fl[i].xray_trace_id = xid /\ fl[i].level = level })

\* build_xray_dot: raises when the trace batch cannot be fetched or read;
\* otherwise appends the trace node and adds the ERROR/WARN entries of the
\* trace to the error count.
build_xray_dot(g, xid, store, function_logs, log) ==
    IF xid \notin store
    THEN [g EXCEPT !.exc = TRUE]
    ELSE LET l_error_count == CountLevel(function_logs, xid, "ERROR")
             l_warn_count  == CountLevel(function_logs, xid, "WARN")
             node_id       == NodeId(log.Timestamp, xid)
             color == IF l_error_count > 0 \/ l_warn_count > 0
                      THEN "tomato" ELSE "lightgray"
         IN  [g EXCEPT
                !.dot = Append(@, [id |-> node_id, kind |-> "xray",
                                   color |-> color, Parameters |-> <<>>,
                                   src |-> <<>>]),
                !.nodes = Append(@, node_id),
                !.error_count = @ + l_error_count + l_warn_count]

\* Lines 399-411: with no target only a diagnostic is printed; with targets
\* the trace node is spliced in; an exception of the try block (also one of
\* build_xray_dot) leaves the graph as it was.
TraceSplice(g1, acc, xid, store, log) ==
    IF acc.exc \/ acc.target = <<>>
    THEN g1
    ELSE LET g2 == build_xray_dot(g1, xid, store, acc.fl, log)
         IN  IF g2.exc THEN g1 ELSE g2

\* The nested Parameters map of an invocation event:
\* log.get("Parameters", []).get("Parameters", [])
LogParameters(log) ==
    IF log.Parameters.Parameters.t = "absent"
    THEN [t |-> "list", m |-> {}]
    ELSE log.Parameters.Parameters

BlockNode(node_id, is_err, idx) ==
    [id |-> node_id, kind |-> "block",
     color |-> IF Truthy(is_err) THEN "tomato" ELSE "lightgray",
     Parameters |-> <<>>, src |-> <<idx>>]

\* add_block_nodes: appends the block node, then, for an external
\* invocation, correlates the event with the function logs and splices in
\* the trace node.  Returns the graph, the error count, whether an exception
\* escaped, and the event and function logs as the call leaves them.
add_block_nodes(module_type, log, is_err, g, node_id, idx, llogs, store) ==
    LET g1 == [dot |-> Append(g.dot, BlockNode(node_id, is_err, idx)),
               nodes |-> Append(g.nodes, node_id),
               error_count |-> g.error_count,
               exc |-> FALSE]
        out(gr, raised, lg, ll) ==
            [dot |-> gr.dot, nodes |-> gr.nodes,
             error_count |-> gr.error_count,
             raised |-> raised, log |-> lg, lambda_logs |-> ll]
    IN  IF module_type = "InvokeExternalResource" /\ DOMAIN llogs # {}
        THEN IF log.Parameters.t # "dict"
                \/ log.Parameters.FunctionArn = "<missing>"
             THEN out(g1, TRUE, log, llogs)       \* raised outside the try
             ELSE LET function_name == get_func_name(log.Parameters.FunctionArn)
                      known == function_name \in DOMAIN llogs
                      function_logs == IF known THEN llogs[function_name]
                                       ELSE <<>>
                      acc == MatchLoop([target |-> <<>>,
                                        lp |-> LogParameters(log),
                                        fl |-> function_logs,
                                        exc |-> FALSE], 1, log.ContactId)
                      log2 == IF log.Parameters.Parameters.t = "dict"
                              THEN [log EXCEPT !.Parameters.Parameters = acc.lp]
                              ELSE log
                      ll2 == IF known
                             THEN [llogs EXCEPT ![function_name] = acc.fl]
                             ELSE llogs
                      xid == SelectXid(acc.fl, acc.target, log.Timestamp)
                      g2 == TraceSplice(g1, acc, xid, store, log)
                  IN  out(g2, FALSE, log2, ll2)
        ELSE out(g1, FALSE, log, llogs)

----------------------------------------------------------------------------
(* Event deduplicator                                                      *)

\* add_node_cache opening a bucket for every event.
add_node_cache_nomerge(module_type, cache, node_id, log, is_err, idx) ==
    Append(cache, [key |-> << log.ContactFlowName, module_type >>,
                   id |-> node_id, module_type |-> module_type,
                   Parameters |-> << log.Parameters >>,
                   is_error |-> is_err, src |-> <<idx>>])

\* add_node_cache: appends the event's Parameters to the bucket of
\* (ContactFlowName, module_type), or opens the bucket.
add_node_cache(module_type, cache, node_id, log, is_err, idx) ==
    LET unique_key == << log.ContactFlowName, module_type >> IN
    IF \E i \in 1..Len(cache) : cache[i].key = unique_key
    THEN LET i == CHOOSE j \in 1..Len(cache) : cache[j].key = unique_key
         IN  [cache EXCEPT ![i].Parameters = Append(@, log.Parameters),
                           ![i].src = Append(@, idx)]
    ELSE Append(cache, [key |-> unique_key, id |-> node_id,
                        module_type |-> module_type,
                        Parameters |-> << log.Parameters >>,
                        is_error |-> is_err, src |-> <<idx>>])

\* dup_block_sanitize: one node per bucket, in insertion order.
RECURSIVE dup_block_sanitize(_, _, _)
dup_block_sanitize(cache, i, g) ==
    IF i > Len(cache) THEN g
    ELSE dup_block_sanitize(cache, i + 1,
            [g EXCEPT
               !.dot = Append(@, [id |-> cache[i].id, kind |-> "aggregate",
                                  color |-> IF Truthy(cache[i].is_error)
                                            THEN "tomato" ELSE "lightgray",
                                  Parameters |-> cache[i].Parameters,
                                  src |-> cache[i].src]),
               !.nodes = Append(@, cache[i].id)])

----------------------------------------------------------------------------
(* Graph assembler                                                         *)

\* add_edges stopping one pair early.
RECURSIVE add_edges_short(_, _, _)
add_edges_short(ns, i, added) ==
    IF i > Len(ns) - 2 THEN added
    ELSE IF \E k \in 1..Len(added) :
                added[k].tail = ns[i] /\ added[k].head = ns[i + 1]
         THEN add_edges_short(ns, i + 1, added)
         ELSE add_edges_short(ns, i + 1,
                  Append(added, [tail |-> ns[i], head |-> ns[i + 1],
                                 label |-> i - 1]))

\* add_edges: one edge per consecutive pair of the node list, a pair that
\* was already added being skipped.
RECURSIVE add_edges(_, _, _)
add_edges(ns, i, added) ==
    IF i > Len(ns) - 1 THEN added
    ELSE IF \E k \in 1..Len(added) :
                added[k].tail = ns[i] /\ added[k].head = ns[i + 1]
         THEN add_edges(ns, i + 1, added)
         ELSE add_edges(ns, i + 1,
                  Append(added, [tail |-> ns[i], head |-> ns[i + 1],
                                 label |-> i - 1]))

\* list.sort(key=Timestamp): stable insertion of each record in turn.
RECURSIVE InsertByTimestamp(_, _)
InsertByTimestamp(sorted, e) ==
    IF sorted = <<>> THEN << e >>
    ELSE IF sorted[Len(sorted)].Timestamp <= e.Timestamp
         THEN Append(sorted, e)
         ELSE Append(InsertByTimestamp(SubSeq(sorted, 1, Len(sorted) - 1), e),
                     sorted[Len(sorted)])

RECURSIVE SortByTimestamp(_)
SortByTimestamp(s) ==
    IF s = <<>> THEN <<>>
    ELSE InsertByTimestamp(SortByTimestamp(SubSeq(s, 1, Len(s) - 1)), s[Len(s)])

\* Flow names that contain "MOD_" (the test of line 1125).
ModuleFlowNames == { "MOD_A", "MOD_B" }

\* The frame with the graph dup_block_sanitize returned.
WithGraph(fr, g) == [fr EXCEPT !.dot = g.dot, !.nodes = g.nodes]

\* The frame after `nodes, dot = add_block_nodes(...)` returned r for the
\* event at position i.
WithBlock(f1, i, r) ==
    [f1 EXCEPT !.dot = r.dot, !.nodes = r.nodes,
               !.error_count = r.error_count,
               !.raised = r.raised,
               !.lambda_logs = r.lambda_logs,
               !.logs[i] = r.log]

\* `if len(node_cache) > 0 and last_module_type != module_type:` flush the
\* buckets into the graph and empty the cache (1142-1144, 861-863).
FlushCache(fr, module_type) ==
    IF Len(fr.node_cache) > 0 /\ module_type # fr.last_module_type
    THEN WithGraph([fr EXCEPT !.node_cache = <<>>],
                   dup_block_sanitize(fr.node_cache, 1,
                                      [dot |-> fr.dot, nodes |-> fr.nodes]))
    ELSE fr

\* EmitBranch emitting the block of every module type.
EmitBranch_all(f1, i, is_err, store) ==
    WithBlock(f1, i,
        add_block_nodes(f1.logs[i].ContactFlowModuleType, f1.logs[i],
                        is_err,
                        [dot |-> f1.dot, nodes |-> f1.nodes,
                         error_count |-> f1.error_count],
                        NodeId(f1.logs[i].Timestamp, ToString(i - 1)),
                        i - 1, f1.lambda_logs, store))

\* `if module_type not in OMIT_CONTACT_FLOW_MODULE_TYPE:` emit the block
\* (1146-1147, 865-866).
EmitBranch(f1, i, is_err, store) ==
    IF f1.logs[i].ContactFlowModuleType \notin OMIT_CONTACT_FLOW_MODULE_TYPE
    THEN WithBlock(f1, i,
             add_block_nodes(f1.logs[i].ContactFlowModuleType, f1.logs[i],
                             is_err,
                             [dot |-> f1.dot, nodes |-> f1.nodes,
                              error_count |-> f1.error_count],
                             NodeId(f1.logs[i].Timestamp, ToString(i - 1)),
                             i - 1, f1.lambda_logs, store))
    ELSE f1

\* The aggregate-or-emit branch shared by both build loops
\* (build_contact_flow_detail 1136-1147, build_module_detail 855-866).
\* fr: dot, nodes, error_count, raised, node_cache, last_module_type,
\* lambda_logs, logs; i is the 1-based position of the event in fr.logs.
BlockBranch(fr, i, is_err, store) ==
    LET log         == fr.logs[i]
        idx         == i - 1
        node_id     == NodeId(log.Timestamp, ToString(idx))
        module_type == log.ContactFlowModuleType
    IN  IF module_type \in DUP_CONTACT_FLOW_MODULE_TYPE
        THEN [fr EXCEPT
                !.node_cache = add_node_cache(module_type, @, node_id, log,
                                              is_err, idx),
                !.last_module_type = "None"]      \* log.get(module_type)
        ELSE EmitBranch(FlushCache(fr, module_type), i, is_err, store)

\* Loop body of build_module_detail (lines 844-866).
ModuleStep(fr, i, store) ==
    LET is_err == classify(fr.logs[i]) IN
    IF is_err = "raise"
    THEN [fr EXCEPT !.raised = TRUE]
    ELSE BlockBranch([fr EXCEPT !.error_count =
                                   IF Truthy(is_err) THEN @ + 1 ELSE @],
                     i, is_err, store)

RECURSIVE ModuleLoop(_, _, _)
ModuleLoop(fr, i, store) ==
    IF fr.raised \/ i > Len(fr.logs) THEN fr
    ELSE ModuleLoop(ModuleStep(fr, i, store), i + 1, store)

\* Lines 871-875: add_edges over the node list the loop left, and the
\* values build_module_detail returns.
ModuleGraph(fr) ==
    [dot |-> fr.dot, nodes |-> fr.nodes,
     edges |-> add_edges(fr.nodes, 1, <<>>),
     error_count |-> fr.error_count, raised |-> fr.raised,
     lambda_logs |-> fr.lambda_logs, logs |-> fr.logs,
     node_cache |-> fr.node_cache]

\* build_module_detail: sorts the module's events, runs the loop, adds the
\* edges.  The final dup_block_sanitize is commented out in the source.
build_module_detail(module_logs, llogs, module_error_count, store) ==
    ModuleGraph(ModuleLoop([dot |-> <<>>, nodes |-> <<>>,
                            error_count |-> module_error_count,
                            raised |-> FALSE, node_cache |-> <<>>,
                            last_module_type |-> "",
                            lambda_logs |-> llogs,
                            logs |-> SortByTimestamp(module_logs)], 1, store))

\* The counting loop of process_sub_flow (lines 750-763): one increment for
\* an error keyword and one more for a failed invocation.  -1: it raised.
RECURSIVE CountErrors(_, _, _)
CountErrors(l_logs, i, count) ==
    IF i > Len(l_logs) THEN count
    ELSE LET kw == KeywordTest(l_logs[i]) IN
         IF kw = "raise" THEN -1
         ELSE CountErrors(l_logs, i + 1,
                  count + (IF kw = "True" THEN 1 ELSE 0)
                        + (IF Truthy(is_lambda_error(l_logs[i])) THEN 1 ELSE 0))

\* Positions of the events of one flow name in a list.
PositionsOf(ls, name) ==
    LET P == { i \in 1..Len(ls) : ls[i].ContactFlowName = name }
    IN  [ k \in 1..Cardinality(P) |->
            CHOOSE i \in P : Cardinality({ j \in P : j < i }) = k - 1 ]

\* SubFlowSummary without `l_nodes[l_name] = node_id` (line 798).
SubFlowSummary_forgetful(st, l_name, node_id, idx, pos, counted, sub_file, sub) ==
    IF sub.raised
    THEN [st EXCEPT !.raised = TRUE]
    ELSE [st EXCEPT
            !.error_count = counted + sub.error_count,
            !.lambda_logs = sub.lambda_logs,
            !.logs = [ i \in 1..Len(st.logs) |->
                         IF \E k \in 1..Len(pos) : pos[k] = i
                         THEN sub.logs[CHOOSE k \in 1..Len(pos) : pos[k] = i]
                         ELSE st.logs[i] ],
            !.rendered =
                { r \in @ : r[1] # sub_file }
                \cup { << sub_file,
                          [nodes |-> sub.nodes, dot |-> sub.dot,
                           edges |-> sub.edges] >> },
            !.dot = Append(@,
                [id |-> node_id, kind |-> "summary",
                 color |-> IF sub.error_count > 0
                           THEN "tomato" ELSE "lightgray",
                 Parameters |-> <<>>, src |-> <<idx>>]),
            !.nodes = Append(@, node_id)]

\* Lines 793-824 for a module: the sub-graph sub is rendered to sub_file,
\* its error count added, and the summary node appended to the caller's
\* graph.  An exception of build_module_detail propagates.
SubFlowSummary(st, l_name, node_id, idx, pos, counted, sub_file, sub) ==
    IF sub.raised
    THEN [st EXCEPT !.raised = TRUE]
    ELSE [st EXCEPT
            !.error_count = counted + sub.error_count,
            !.lambda_logs = sub.lambda_logs,
            !.logs = [ i \in 1..Len(st.logs) |->
                         IF \E k \in 1..Len(pos) : pos[k] = i
                         THEN sub.logs[CHOOSE k \in 1..Len(pos) : pos[k] = i]
                         ELSE st.logs[i] ],
            !.rendered =
                { r \in @ : r[1] # sub_file }
                \cup { << sub_file,
                          [nodes |-> sub.nodes, dot |-> sub.dot,
                           edges |-> sub.edges] >> },
            !.module_nodes = { m \in @ : m[1] # l_name }
                             \cup { << l_name, node_id >> },
            !.dot = Append(@,
                [id |-> node_id, kind |-> "summary",
                 color |-> IF sub.error_count > 0
                           THEN "tomato" ELSE "lightgray",
                 Parameters |-> <<>>, src |-> <<idx>>]),
            !.nodes = Append(@, node_id)]

\* process_sub_flow with flow_type "module" (lines 743-824): counts the
\* module's errors, builds and renders its sub-graph, adds the module's own
\* error count and appends the summary node.
\* st: dot, nodes, error_count, raised, lambda_logs, logs, module_nodes,
\* rendered.
process_sub_flow_module(st, l_name, node_id, idx, contact_id, store) ==
    LET pos      == PositionsOf(st.logs, l_name)
        l_logs   == [ k \in 1..Len(pos) |-> st.logs[pos[k]] ]
        counted  == CountErrors(l_logs, 1, st.error_count)
        last     == l_logs[Len(l_logs)]
    IN  IF counted = -1 \/ Len(last.ModuleExecutionStack) < 2
        THEN [st EXCEPT !.raised = TRUE]
        ELSE SubFlowSummary(st, l_name, node_id, idx, pos, counted,
                 [kind |-> "module", contact_id |-> contact_id,
                  node_id |-> "",
                  stack |-> << last.ModuleExecutionStack[2], l_name >>],
                 build_module_detail(l_logs, st.lambda_logs, 0, store))

\* Loop body of build_contact_flow_detail (lines 1115-1147) for the event at
\* position i of st.logs.
\* st: dot, nodes, error_count, raised, node_cache, last_module_type,
\* lambda_logs, logs, module_nodes, rendered.
FlowBody(st, i, contact_id, store) ==
    IF classify(st.logs[i]) = "raise"
    THEN [st EXCEPT !.raised = TRUE]
    ELSE IF st.logs[i].ContactFlowName \in ModuleFlowNames
    THEN IF \A m \in st.module_nodes : m[1] # st.logs[i].ContactFlowName
         THEN process_sub_flow_module(st, st.logs[i].ContactFlowName,
                  NodeId(st.logs[i].Timestamp, ToString(i - 1)), i - 1,
                  contact_id, store)
         ELSE st
    ELSE BlockBranch(st, i, classify(st.logs[i]), store)

RECURSIVE FlowLoop(_, _, _, _)
FlowLoop(st, i, contact_id, store) ==
    IF st.raised \/ i > Len(st.logs) THEN st
    ELSE FlowLoop(FlowBody(st, i, contact_id, store), i + 1, contact_id, store)

\* build_contact_flow_detail: sorts the group's events, runs the loop and
\* adds the edges; rendered holds the artifacts written so far.
build_contact_flow_detail(l_logs, contact_id, llogs, count, store, files) ==
    FlowLoop([dot |-> <<>>, nodes |-> <<>>, error_count |-> count,
              raised |-> FALSE, node_cache |-> <<>>, last_module_type |-> "",
              lambda_logs |-> llogs, logs |-> SortByTimestamp(l_logs),
              module_nodes |-> {}, rendered |-> files],
             1, contact_id, store)

----------------------------------------------------------------------------
(* Bounds and input universes                                              *)

MaxLogs == 3        \* longest event list of one flow
MaxFnLogs == 2      \* longest function log list

\* Two instants: an order and a tie.
Timestamps == { 1, 2 }

ResAbsent == [t |-> "absent", v |-> <<>>]
ResText(words) == [t |-> "str", v |-> words]

ExtAbsent == [t |-> "absent", isSuccess |-> "<missing>"]
ExtMap(flag) == [t |-> "dict", isSuccess |-> flag]

PayloadAbsent == [t |-> "absent", m |-> {}]
PayloadNone == [t |-> "none", m |-> {}]
Payload(m) == [t |-> "dict", m |-> m]

NoParams ==
    [t |-> "absent", FunctionArn |-> "<missing>",
     Parameters |-> PayloadAbsent, Key |-> ""]
AttrParams(k) ==
    [t |-> "dict", FunctionArn |-> "<missing>",
     Parameters |-> PayloadAbsent, Key |-> k]
InvokeParams(m) ==
    [t |-> "dict", FunctionArn |-> "fn", Parameters |-> Payload(m), Key |-> ""]

\* Parameters of an invocation event that carry no FunctionArn.
InvokeParamsNoArn(m) ==
    [t |-> "dict", FunctionArn |-> "<missing>", Parameters |-> Payload(m),
     Key |-> ""]
\* Parameters of an invocation event without the nested Parameters map.
InvokeParamsNoMap ==
    [t |-> "dict", FunctionArn |-> "fn", Parameters |-> PayloadAbsent,
     Key |-> ""]

Event(ts, flow, type, res, ext, params) ==
    [Timestamp |-> ts, ContactId |-> "c1", ContactFlowName |-> flow,
     ContactFlowModuleType |-> type, Results |-> res,
     ExternalResults |-> ext, Parameters |-> params,
     ModuleExecutionStack |-> IF flow \in ModuleFlowNames
                              THEN << flow, "F" >> ELSE <<>>]

\* The events of one flow group: plain, aggregatable and omitted blocks of
\* flow F, two invocations (one failing on both counts and without a
\* function log, one correlated), events of the modules MOD_A and MOD_B,
\* an invocation without FunctionArn in flow F and in module MOD_A, an
\* aggregatable block that failed and an omitted block of module MOD_A.
FlowEvents ==
    UNION { { Event(ts, "F", "PlayPrompt", ResAbsent, ExtAbsent, NoParams),
              Event(ts, "F", "SetAttributes", ResAbsent, ExtAbsent,
                    AttrParams("a")),
              Event(ts, "F", "SetFlowAttributes", ResAbsent, ExtAbsent,
                    AttrParams("b")),
              Event(ts, "F", "InvokeFlowModule", ResAbsent, ExtAbsent,
                    NoParams),
              Event(ts, "F", "InvokeExternalResource", ResText(<<"Error">>),
                    ExtMap("false"), InvokeParams({ <<"x", 2>> })),
              Event(ts, "F", "InvokeExternalResource", ResAbsent,
                    ExtMap("true"), InvokeParams({ <<"x", 1>> })),
              Event(ts, "MOD_A", "PlayPrompt", ResText(<<"Timeout">>),
                    ExtAbsent, NoParams),
              Event(ts, "MOD_A", "SetAttributes", ResAbsent, ExtAbsent,
                    AttrParams("a")),
              Event(ts, "MOD_B", "PlayPrompt", ResAbsent, ExtAbsent,
                    NoParams),
              Event(ts, "F", "InvokeExternalResource", ResAbsent,
                    ExtMap("true"), InvokeParamsNoArn({ <<"x", 1>> })),
              Event(ts, "MOD_A", "InvokeExternalResource", ResAbsent,
                    ExtMap("true"), InvokeParamsNoArn({ <<"x", 1>> })),
              Event(ts, "F", "SetAttributes", ResText(<<"Failed">>),
                    ExtAbsent, AttrParams("a")),
              Event(ts, "MOD_A", "InvokeFlowModule", ResAbsent, ExtAbsent,
                    NoParams) } :
            ts \in Timestamps }

IsSorted(s) == \A i \in 1..(Len(s) - 1) : s[i].Timestamp <= s[i + 1].Timestamp

\* build_main_flow sorts the interaction's events (line 1166) before it
\* hands a group to process_sub_flow.
FlowInputs ==
    UNION { { s \in [1..n -> FlowEvents] : IsSorted(s) } : n \in 1..MaxLogs }

FnLog(cid, message, payload, ts, xid, level) ==
    [ContactId |-> cid, message |-> message,
     parameters |-> IF message = "Event" THEN PayloadNone ELSE payload,
     event |-> IF message = "Event" THEN payload ELSE PayloadAbsent,
     timestamp |-> ts, xray_trace_id |-> xid, level |-> level]

EmptyLambdaLogs == [n \in {} |-> <<>>]

\* The function logs of the flow group: one parameter line of function fn.
FlowLambdaLogs ==
    [n \in {"fn"} |->
        << FnLog("c1", "parameter", Payload({ <<"x", 1>> }), 1, "t1", "ERROR") >>]

----------------------------------------------------------------------------
(* Specification of one flow group: process_sub_flow("flow", ...) as       *)
(* build_main_flow calls it, with build_contact_flow_detail's loop         *)

Idle ==
    /\ index = 0
    /\ nodes = <<>>
    /\ dot = <<>>
    /\ node_cache = <<>>
    /\ last_module_type = ""
    /\ module_nodes = {}
    /\ error_count = 0
    /\ edges = <<>>
    /\ rendered = {}
    /\ main_nodes = <<>>
    /\ is_error = "unset"

\* No interaction is being composed.
NoContacts ==
    /\ search_contacts = <<>>
    /\ subgraphs = {}
    /\ subgraph_nodes = << >>
    /\ subcontact_logs = << >>
    /\ subcontact_attr = << >>
    /\ root_contact_ids = <<>>

Init ==
    /\ logs \in FlowInputs
    /\ lambda_logs = FlowLambdaLogs
    /\ xray_store = {"t1"}
    /\ telemetry = [logs |-> logs, lambda_logs |-> lambda_logs]
    /\ pc = "enter"
    /\ Idle
    /\ NoContacts

\* process_sub_flow 743-763 and 787-789, build_contact_flow_detail 1103-1113:
\* the counting loop, then the sort and the empty graph.
Enter ==
    /\ pc = "enter"
    /\ LET counted == CountErrors(logs, 1, error_count) IN
       IF counted = -1
       THEN /\ pc' = "raised"
            /\ UNCHANGED <<logs, error_count>>
       ELSE /\ pc' = "loop"
            /\ error_count' = counted
            /\ logs' = SortByTimestamp(logs)
    /\ index' = 0
    /\ nodes' = <<>>
    /\ dot' = <<>>
    /\ node_cache' = <<>>
    /\ last_module_type' = ""
    /\ module_nodes' = {}
    /\ UNCHANGED <<lambda_logs, xray_store, edges, rendered, main_nodes,
                   telemetry, is_error>>
    /\ UNCHANGED contactVars

\* One iteration of the for loop of build_contact_flow_detail (1115-1147).
FlowStep ==
    /\ pc = "loop"
    /\ index < Len(logs)
    /\ LET i        == index + 1
           log      == logs[i]
           is_err   == classify(log)
           st0 == [dot |-> dot, nodes |-> nodes, error_count |-> error_count,
                   raised |-> FALSE, node_cache |-> node_cache,
                   last_module_type |-> last_module_type,
                   lambda_logs |-> lambda_logs, logs |-> logs,
                   module_nodes |-> module_nodes, rendered |-> rendered]
       IN  \E st1 \in { FlowBody(st0, i, log.ContactId, xray_store) } :
           /\ pc' = IF st1.raised THEN "raised" ELSE "loop"
           /\ is_error' = is_err
           /\ dot' = st1.dot
           /\ nodes' = st1.nodes
           /\ error_count' = st1.error_count
           /\ node_cache' = st1.node_cache
           /\ last_module_type' = st1.last_module_type
           /\ lambda_logs' = st1.lambda_logs
           /\ logs' = st1.logs
           /\ module_nodes' = st1.module_nodes
           /\ rendered' = st1.rendered
    /\ index' = index + 1
    /\ UNCHANGED <<xray_store, edges, main_nodes, telemetry>>
    /\ UNCHANGED contactVars

FlowFile(contact_id, l_name) ==
    [kind |-> "flow", contact_id |-> contact_id, node_id |-> "g1",
     stack |-> << l_name >>]

\* End of build_contact_flow_detail (1149-1158: add_edges; the final
\* dup_block_sanitize is commented out) and the rest of process_sub_flow
\* (793-824): the flow's graph is rendered and its summary node appended to
\* the main flow graph.
Finish ==
    /\ pc = "loop"
    /\ index = Len(logs)
    /\ pc' = "done"
    /\ edges' = add_edges(nodes, 1, <<>>)
    /\ rendered' = { r \in rendered : r[1] # FlowFile("c1", "F") }
                   \cup { << FlowFile("c1", "F"),
                             [nodes |-> nodes, dot |-> dot,
                              edges |-> add_edges(nodes, 1, <<>>)] >> }
    /\ main_nodes' = Append(main_nodes,
                        [id |-> "c1_g1", kind |-> "summary",
                         color |-> IF error_count > 0 THEN "tomato"
                                   ELSE "lightgray",
                         URL |-> FlowFile("c1", "F")])
    /\ UNCHANGED <<logs, lambda_logs, xray_store, index, nodes, dot,
                   node_cache, last_module_type, module_nodes, error_count,
                   telemetry, is_error>>
    /\ UNCHANGED contactVars

Next == Enter \/ FlowStep \/ Finish

Spec == Init /\ [][Next]_vars

----------------------------------------------------------------------------
(* Specification of the error classifier on one event record               *)

ResultsValues ==
    { ResAbsent,
      [t |-> "none", v |-> <<>>],
      [t |-> "int", v |-> <<>>],
      ResText(<<>>),
      ResText(<<"Success">>),
      ResText(<<"error">>),
      ResText(<<"Error">>),
      ResText(<<"Success", "Timeout">>),
      [t |-> "dict", v |-> <<"message">>],
      [t |-> "dict", v |-> <<"Error">>] }

ExternalResultsValues ==
    { ExtAbsent,
      [t |-> "none", isSuccess |-> "<missing>"],
      [t |-> "str", isSuccess |-> "<missing>"],
      [t |-> "list", isSuccess |-> "<missing>"],
      ExtMap("<missing>"),
      ExtMap("false"),
      ExtMap("true"),
      ExtMap("False") }

ClassifyEvents ==
    { Event(1, "F", type, res, ext, NoParams) :
        type \in {"InvokeExternalResource", "PlayPrompt"},
        res \in ResultsValues, ext \in ExternalResultsValues }

InitClassify ==
    /\ logs \in { << e >> : e \in ClassifyEvents }
    /\ lambda_logs = EmptyLambdaLogs
    /\ xray_store = {}
    /\ telemetry = [logs |-> logs, lambda_logs |-> lambda_logs]
    /\ pc = "classify"
    /\ Idle
    /\ NoContacts

\* The classification expression of the build loops (lines 845 and 1116).
Classify ==
    /\ pc = "classify"
    /\ LET r == classify(logs[1]) IN
       IF r = "raise"
       THEN pc' = "raised" /\ UNCHANGED is_error
       ELSE pc' = "classified" /\ is_error' = r
    /\ UNCHANGED <<logs, lambda_logs, xray_store, index, nodes, dot,
                   node_cache, last_module_type, module_nodes, error_count,
                   edges, rendered, main_nodes, telemetry>>
    /\ UNCHANGED contactVars

NextClassify == Classify

SpecClassify == InitClassify /\ [][NextClassify]_vars

----------------------------------------------------------------------------
(* Specification of the correlator: one call of add_block_nodes            *)

ParamMaps ==
    { { <<"x", 1>> }, { <<"x", 2>> },
      { <<"x", 1>>, <<"varsConfig", 1>> },
      { <<"x", 2>>, <<"varsConfig", 2>> } }

\* Instants and trace ids of the function log lines.
FnLogStamps == { <<1, "t1">>, <<1, "t2">>, <<2, "t2">> }

FnLogEntries ==
    { FnLog("c1", kind, Payload(m), st[1], st[2], "INFO") :
        kind \in {"parameter", "Event"}, m \in ParamMaps, st \in FnLogStamps }
    \cup
    { FnLog("c2", "parameter", Payload({ <<"x", 1>> }), 1, "t2", "INFO"),
      FnLog("c1", "other", Payload({ <<"x", 1>> }), 1, "t2", "ERROR"),
      FnLog("c1", "parameter", Payload({ <<"x", 1>> }), 1, "t9", "INFO"),
      FnLog("c1", "Event", [t |-> "str", m |-> {}], 1, "t1", "INFO") }

FnLogLists == UNION { [1..n -> FnLogEntries] : n \in 0..MaxFnLogs }

CorrelateEvents ==
    { Event(ts, "F", "InvokeExternalResource", ResAbsent, ExtMap("true"),
            InvokeParams(m)) : ts \in Timestamps, m \in ParamMaps }

\* Invocation events without FunctionArn and without the nested Parameters.
MalformedEvents ==
    { Event(1, "F", "InvokeExternalResource", ResAbsent, ExtMap("true"),
            InvokeParamsNoArn({ <<"x", 1>> })),
      Event(1, "F", "InvokeExternalResource", ResAbsent, ExtMap("true"),
            InvokeParamsNoMap) }

InitCorrelate ==
    /\ logs \in { << e >> : e \in CorrelateEvents \cup MalformedEvents }
    /\ lambda_logs \in
          { EmptyLambdaLogs }
          \cup { [n \in {"fn"} |-> fl] :
                    fl \in { f \in FnLogLists :
                               logs[1] \in MalformedEvents => Len(f) <= 1 } }
          \cup { [n \in {"other_fn"} |-> fl] :
                    fl \in { f \in FnLogLists : Len(f) = 1 } }
    /\ xray_store = {"t1", "t2"}
    /\ telemetry = [logs |-> logs, lambda_logs |-> lambda_logs]
    /\ pc = "call"
    /\ Idle
    /\ NoContacts

\* add_block_nodes on the event, as the build loops call it.
Correlate ==
    /\ pc = "call"
    /\ LET log == logs[1]
           r == add_block_nodes(log.ContactFlowModuleType, log, classify(log),
                    [dot |-> dot, nodes |-> nodes,
                     error_count |-> error_count],
                    NodeId(log.Timestamp, "0"), 0, lambda_logs, xray_store)
       IN  /\ pc' = IF r.raised THEN "raised" ELSE "returned"
           /\ dot' = r.dot
           /\ nodes' = r.nodes
           /\ error_count' = r.error_count
           /\ logs' = << r.log >>
           /\ lambda_logs' = r.lambda_logs
    /\ UNCHANGED <<xray_store, index, node_cache, last_module_type,
                   module_nodes, edges, rendered, main_nodes, telemetry,
                   is_error>>
    /\ UNCHANGED contactVars

NextCorrelate == Correlate

SpecCorrelate == InitCorrelate /\ [][NextCorrelate]_vars

----------------------------------------------------------------------------
(* Error classifier: C6, C7, C8                                            *)

Classified == pc \in {"classified", "raised"}

IsInvocation(log) == log.ContactFlowModuleType = "InvokeExternalResource"

NoSuccessFlag(log) ==
    log.ExternalResults.t # "dict" \/ log.ExternalResults.isSuccess = "<missing>"

\* C6: an InvokeExternalResource event whose ExternalResults has isSuccess
\* equal to the string "false" is classified as an error, whatever its
\* result text is (absent, free text or a structured map).
C6_FailedInvocationIsError ==
    ( /\ Classified
      /\ IsInvocation(logs[1])
      /\ logs[1].ExternalResults.t = "dict"
      /\ logs[1].ExternalResults.isSuccess = "false"
      /\ logs[1].Results.t \in {"absent", "str", "dict"} )
    => (pc = "classified" /\ is_error = "True")

C6_Witness ==
    /\ pc = "classified"
    /\ IsInvocation(logs[1])
    /\ logs[1].ExternalResults = ExtMap("false")
    /\ logs[1].Results = ResText(<<"Success">>)
    /\ is_error = "True"

\* C7 as stated: an external-invocation event without a success flag never
\* classifies as an error.
C7_FlaglessNeverError ==
    (pc = "classified" /\ IsInvocation(logs[1]) /\ NoSuccessFlag(logs[1]))
    => ~Truthy(is_error)

\* C7 as amended: an external-invocation event without a success flag is
\* classified as an error exactly when its Results holds an error keyword;
\* the missing flag itself never makes it one.
C7_FlaglessErrorOnlyByKeyword ==
    (Classified /\ IsInvocation(logs[1]) /\ NoSuccessFlag(logs[1]))
    => (Truthy(is_error) <=> KeywordTest(logs[1]) = "True")

C7_Witness ==
    /\ pc = "classified"
    /\ IsInvocation(logs[1])
    /\ logs[1].ExternalResults = ExtMap("<missing>")
    /\ logs[1].Results = ResText(<<"Success">>)
    /\ is_error = "False"

\* C8: classifying an event never raises, whatever the shape of Results and
\* ExternalResults.
C8_ClassificationNeverRaises == pc # "raised"

----------------------------------------------------------------------------
(* Correlator: C9, C10                                                     *)

Returned == pc \in {"returned", "raised"}

\* The list of an event's function among the function logs as read.
FunctionLogsFor(log) ==
    LET ll == telemetry.lambda_logs
        fn == get_func_name(log.Parameters.FunctionArn)
    IN  IF fn \in DOMAIN ll THEN ll[fn] ELSE <<>>

FunctionLogsRead == FunctionLogsFor(telemetry.logs[1])

\* An entry describes the event's call: same ContactId and the same
\* normalized payload (for an Event line, varsConfig set aside when both
\* sides carry it).
Matches(l, log) ==
    /\ l.ContactId = log.ContactId
    /\ \/ /\ l.message = "parameter"
          /\ replace_idnv(json_dumps(l.parameters))
                = replace_idnv(json_dumps(LogParameters(log)))
       \/ /\ l.message = "Event"
          /\ l.event.t = "dict"
          /\ LogParameters(log).t = "dict"
          /\ LET both == HasKey(l.event.m, "varsConfig")
                         /\ HasKey(LogParameters(log).m, "varsConfig")
                 a == IF both THEN DelKey(l.event.m, "varsConfig")
                      ELSE l.event.m
                 b == IF both THEN DelKey(LogParameters(log).m, "varsConfig")
                      ELSE LogParameters(log).m
             IN  a = b

\* C9: when exactly one entry of the function log list matches the event
\* (and its trace can be fetched), add_block_nodes appends the invocation
\* node and exactly one trace node, the one of that entry's xray_trace_id.
C9_SingleMatchGetsItsTrace ==
    pc = "returned" =>
        \A i \in 1..Len(FunctionLogsRead) :
            ( /\ Matches(FunctionLogsRead[i], telemetry.logs[1])
              /\ \A j \in 1..Len(FunctionLogsRead) :
                    j # i => ~Matches(FunctionLogsRead[j], telemetry.logs[1])
              /\ FunctionLogsRead[i].xray_trace_id \in xray_store )
            => nodes = << NodeId(telemetry.logs[1].Timestamp, "0"),
                          NodeId(telemetry.logs[1].Timestamp,
                                 FunctionLogsRead[i].xray_trace_id) >>

\* The matching loop of add_block_nodes (lines 358-385) run on the event.
MatchResult ==
    MatchLoop([target |-> <<>>, lp |-> LogParameters(telemetry.logs[1]),
               fl |-> FunctionLogsRead, exc |-> FALSE],
              1, telemetry.logs[1].ContactId)

\* The targets the matching loop of add_block_nodes collects for the event.
TargetLogs == MatchResult.target

\* C10: when the matching loop finds no function log entry for the event,
\* add_block_nodes raises nothing, appends the invocation node only and
\* returns the error count it was given.
C10_NoMatchIsNeutral ==
    (Returned /\ TargetLogs = <<>>)
    => /\ pc = "returned"
       /\ nodes = << NodeId(telemetry.logs[1].Timestamp, "0") >>
       /\ Len(dot) = 1
       /\ dot[1].kind = "block"
       /\ error_count = 0

C10_Witness ==
    /\ pc = "returned"
    /\ Len(FunctionLogsRead) = 2
    /\ \A i \in 1..2 : FunctionLogsRead[i].ContactId = "c1"
    /\ TargetLogs = <<>>
    /\ Len(nodes) = 1
    /\ error_count = 0

----------------------------------------------------------------------------
(* The five-event scenario: a plain block, three aggregatable blocks of    *)
(* one type, a plain block, all of flow F                                  *)

PlainEvents ==
    { e \in FlowEvents :
        /\ e.ContactFlowName = "F"
        /\ e.ContactFlowModuleType \notin
              DUP_CONTACT_FLOW_MODULE_TYPE \cup OMIT_CONTACT_FLOW_MODULE_TYPE }

AggregatableEvents ==
    { e \in FlowEvents :
        /\ e.ContactFlowName = "F"
        /\ e.ContactFlowModuleType \in DUP_CONTACT_FLOW_MODULE_TYPE }

ScenarioInputs ==
    { s \in { << a, b, c, d, e >> :
                a \in PlainEvents, b \in AggregatableEvents,
                c \in AggregatableEvents, d \in AggregatableEvents,
                e \in PlainEvents } :
        /\ IsSorted(s)
        /\ s[2].ContactFlowModuleType = s[3].ContactFlowModuleType
        /\ s[3].ContactFlowModuleType = s[4].ContactFlowModuleType }

InitScenario ==
    /\ logs \in ScenarioInputs
    /\ lambda_logs = FlowLambdaLogs
    /\ xray_store = {"t1"}
    /\ telemetry = [logs |-> logs, lambda_logs |-> lambda_logs]
    /\ pc = "enter"
    /\ Idle
    /\ NoContacts

SpecScenario == InitScenario /\ [][Next]_vars

----------------------------------------------------------------------------
(* Graph assembler and deduplicator: C1 .. C5                              *)

Done == pc = "done"

FlowGraph == [nodes |-> nodes, dot |-> dot, edges |-> edges]

ModuleGraphs == { r \in rendered : r[1].kind = "module" }

\* The events build_module_detail was given for a rendered module graph.
ModuleEvents(r) ==
    LET pos == PositionsOf(logs, r[1].stack[2])
    IN  [ k \in 1..Len(pos) |-> logs[pos[k]] ]

NoPairTwice(G) ==
    \A j, k \in 1..Len(G.edges) :
        (G.edges[j].tail = G.edges[k].tail /\ G.edges[j].head = G.edges[k].head)
        => j = k

EdgesAreNodesMinusOne(G) ==
    Len(G.edges) = Len(G.nodes) - 1 /\ NoPairTwice(G)

\* C1 as stated: for every non-empty event list, the graph has as many
\* edges as nodes minus one and no (source, target) pair twice.
C1_EdgesAreNodesMinusOne ==
    Done => /\ EdgesAreNodesMinusOne(FlowGraph)
            /\ \A r \in ModuleGraphs : EdgesAreNodesMinusOne(r[2])

EdgesChainNodes(G) ==
    /\ Len(G.nodes) >= 1 => Len(G.edges) = Len(G.nodes) - 1
    /\ Len(G.nodes) = 0 => Len(G.edges) = 0
    /\ NoPairTwice(G)
    /\ \A k \in 1..Len(G.edges) :
          G.edges[k].tail = G.nodes[k] /\ G.edges[k].head = G.nodes[k + 1]

\* C1 as amended: for every event list that puts at least one node in the
\* node list, the graph has as many edges as nodes minus one, the k-th edge
\* joining the k-th node to the next, and no pair twice; a list that
\* produces no node produces no edge.
C1_EdgesChainTheNodes ==
    Done => /\ EdgesChainNodes(FlowGraph)
            /\ \A r \in ModuleGraphs : EdgesChainNodes(r[2])

C1_Witness ==
    /\ Done
    /\ Len(nodes) = 3
    /\ Len(edges) = 2
    /\ \E r \in ModuleGraphs : Len(r[2].nodes) = 1

\* The maximal runs (two events or more) of consecutive events of evs that
\* share flow name and module type, the type being aggregatable.
SameBucket(a, b) ==
    /\ a.ContactFlowName = b.ContactFlowName
    /\ a.ContactFlowModuleType = b.ContactFlowModuleType

Runs(evs) ==
    { run \in (1..Len(evs)) \X (1..Len(evs)) :
        /\ run[1] < run[2]
        /\ evs[run[1]].ContactFlowModuleType \in DUP_CONTACT_FLOW_MODULE_TYPE
        /\ \A k \in run[1]..run[2] : SameBucket(evs[k], evs[run[1]])
        /\ run[1] > 1 => ~SameBucket(evs[run[1] - 1], evs[run[1]])
        /\ run[2] < Len(evs) => ~SameBucket(evs[run[2] + 1], evs[run[1]]) }

\* The aggregate nodes of d that hold an event of positions a..b.
NodesOfRun(d, a, b) ==
    { k \in 1..Len(d) :
        /\ d[k].kind = "aggregate"
        /\ \E j \in 1..Len(d[k].src) : d[k].src[j] + 1 \in a..b }

RunsAggregated(evs, d, inModule) ==
    \A run \in Runs(evs) :
        (inModule \/ evs[run[1]].ContactFlowName \notin ModuleFlowNames)
        => /\ Cardinality(NodesOfRun(d, run[1], run[2])) = 1
           /\ \A k \in NodesOfRun(d, run[1], run[2]) :
                 Len(d[k].Parameters) = run[2] - run[1] + 1

\* C2: every run of two or more consecutive aggregatable events of one
\* (ContactFlowName, ContactFlowModuleType) yields exactly one node in the
\* finished graph, wherever it lies, with as many accumulated Parameters as
\* the run has events.
C2_EveryRunIsOneNode ==
    Done => /\ RunsAggregated(logs, dot, FALSE)
            /\ \A r \in ModuleGraphs :
                  RunsAggregated(ModuleEvents(r), r[2].dot, TRUE)

\* The scenario's inputs: positions 1 and 5 get no trace node.
Correlated(log) ==
    /\ IsInvocation(log)
    /\ \E i \in 1..Len(FunctionLogsFor(log)) :
          Matches(FunctionLogsFor(log)[i], log)

ThreeNodesTwoEdges ==
    /\ nodes = << NodeId(logs[1].Timestamp, "0"),
                  NodeId(logs[2].Timestamp, "1"),
                  NodeId(logs[5].Timestamp, "4") >>
    /\ Len(dot) = 3
    /\ dot[1].kind = "block" /\ dot[1].src = <<0>>
    /\ dot[2].kind = "aggregate" /\ dot[2].src = <<1, 2, 3>>
    /\ dot[3].kind = "block" /\ dot[3].src = <<4>>
    /\ Len(edges) = 2

\* C3 as stated: the five-event flow yields exactly three nodes (event 1,
\* the aggregate of events 2-4, event 5) and two edges.
C3_ScenarioThreeNodes == Done => ThreeNodesTwoEdges

\* C3 as amended: the same, when neither event 1 nor event 5 is an
\* invocation that is correlated with a function log (such an event is
\* followed by its trace node).
C3_ScenarioThreeNodesNoTrace ==
    (Done /\ ~Correlated(telemetry.logs[1]) /\ ~Correlated(telemetry.logs[5]))
    => ThreeNodesTwoEdges

C3_Witness ==
    /\ Done
    /\ Len(logs) = 5
    /\ logs[1].ContactFlowModuleType = "InvokeExternalResource"
    /\ logs[3].ContactFlowModuleType = "SetFlowAttributes"
    /\ Len(nodes) = 3
    /\ Len(dot[2].Parameters) = 3
    /\ Len(edges) = 2

TrailingRunFlushed(evs, d, inModule) ==
    LET last == evs[Len(evs)] IN
    ( /\ last.ContactFlowModuleType \in DUP_CONTACT_FLOW_MODULE_TYPE
      /\ inModule \/ last.ContactFlowName \notin ModuleFlowNames )
    => NodesOfRun(d, Len(evs), Len(evs)) # {}

\* C4: when the stream ends on an aggregatable event, the open bucket is
\* flushed: the finished graph holds the aggregate node of the trailing run.
C4_TrailingRunFlushed ==
    Done => /\ TrailingRunFlushed(logs, dot, FALSE)
            /\ \A r \in ModuleGraphs :
                  TrailingRunFlushed(ModuleEvents(r), r[2].dot, TRUE)

NoTraceNode(d) == \A k \in 1..Len(d) : d[k].kind # "xray"

\* C5: without trace correlation the error count process_sub_flow returns
\* is the number of events classified as errors (the flow's own and those of
\* its nested modules), each counted once.
C5_ErrorsCountedOnce ==
    ( /\ Done
      /\ NoTraceNode(dot)
      /\ \A r \in ModuleGraphs : NoTraceNode(r[2].dot) )
    => error_count =
          Cardinality({ i \in 1..Len(logs) : Truthy(classify(logs[i])) })

----------------------------------------------------------------------------
(* Correlator: C11, C12                                                    *)

GapOf(i) ==
    calculate_timestamp_gap(telemetry.logs[1].Timestamp,
                            FunctionLogsRead[i].timestamp)

\* The accepted entry with the smallest gap, the first of them in the list.
ClosestTarget ==
    CHOOSE k \in 1..Len(TargetLogs) :
        /\ \A j \in 1..Len(TargetLogs) : GapOf(TargetLogs[k]) <= GapOf(TargetLogs[j])
        /\ \A j \in 1..(k - 1) : GapOf(TargetLogs[j]) > GapOf(TargetLogs[k])

C12_AcceptedEntriesMatch ==
    Returned =>
        \A k \in 1..Len(TargetLogs) :
            Matches(FunctionLogsRead[TargetLogs[k]], telemetry.logs[1])

----------------------------------------------------------------------------
(* Node identity: C16, C17                                                 *)

IdsOf(ns) == { ns[i] : i \in 1..Len(ns) }

\* C16: in the graph build_contact_flow_detail builds for a flow, no two
\* entries of the node list (direct, aggregate, module summary and trace
\* nodes) carry the same id, also when timestamps are equal.
C16_NodeIdsAreUnique ==
    Done => \A i, j \in 1..Len(nodes) : nodes[i] = nodes[j] => i = j

\* C17: the sub-graphs build_module_detail builds for two different modules
\* of the same flow have no node id in common, also when timestamps tie.
C17_SiblingModulesDisjoint ==
    Done => \A r1, r2 \in ModuleGraphs :
                r1[1] # r2[1] => IdsOf(r1[2].nodes) \cap IdsOf(r2[2].nodes) = {}

----------------------------------------------------------------------------
(* Failure containment: C18, C20                                           *)

\* The events of module name among the flow's events.
ModuleEventsOf(name) ==
    LET pos == PositionsOf(logs, name)
    IN  [ k \in 1..Len(pos) |-> logs[pos[k]] ]

\* The event at position i opened the sub-graph of its module and building
\* that sub-graph raises.
SubGraphRaises(i) ==
    /\ logs[i].ContactFlowName \in ModuleFlowNames
    /\ \A j \in 1..(i - 1) : logs[j].ContactFlowName # logs[i].ContactFlowName
    /\ build_module_detail(ModuleEventsOf(logs[i].ContactFlowName),
                           lambda_logs, 0, xray_store).raised

\* C18: when building the sub-graph of a module raises, process_sub_flow
\* catches the exception: the flow's graph still gets the module's summary
\* node, error-colored, and the flow's remaining events are processed.
C18_SubGraphFailureIsCaught ==
    \A i \in 1..index :
        (pc \in {"loop", "done", "raised"} /\ SubGraphRaises(i))
        => /\ pc # "raised"
           /\ \E k \in 1..Len(dot) :
                 /\ dot[k].kind = "summary"
                 /\ dot[k].src = << i - 1 >>
                 /\ dot[k].color = "tomato"

\* The correlation of the event read fails: no FunctionArn, an exception in
\* the matching loop (a malformed log line, no nested Parameters map), or a
\* trace that cannot be fetched.
CorrelationFails ==
    LET log == telemetry.logs[1]
        acc == MatchLoop([target |-> <<>>, lp |-> LogParameters(log),
                          fl |-> FunctionLogsRead, exc |-> FALSE],
                         1, log.ContactId)
    IN  /\ DOMAIN telemetry.lambda_logs # {}
        /\ \/ log.Parameters.FunctionArn = "<missing>"
           \/ acc.exc
           \/ /\ acc.target # <<>>
              /\ SelectXid(acc.fl, acc.target, log.Timestamp) \notin xray_store

\* C20: a failure raised while correlating an InvokeExternalResource event
\* is caught inside add_block_nodes: the call returns, the invocation node
\* is in the node list and no trace node is added.
C20_CorrelationFailureIsCaught ==
    (Returned /\ CorrelationFails)
    => /\ pc = "returned"
       /\ nodes = << NodeId(telemetry.logs[1].Timestamp, "0") >>

----------------------------------------------------------------------------
(* Multi-interaction composer: build_main_flow and build_main_contacts     *)

\* f"{contact_id}_{log['node_id']}", and the synthetic start node.
MainNodeId(contact_id, node_id) == [c |-> contact_id, n |-> node_id]

StartNode == [c |-> "", n |-> "start"]

\* The keys of node_info in insertion order (lines 1175-1182).
RECURSIVE GroupKeys(_, _, _)
GroupKeys(ls, i, keys) ==
    IF i > Len(ls) THEN keys
    ELSE GroupKeys(ls, i + 1,
            IF \E k \in 1..Len(keys) : keys[k] = ls[i].node_id
            THEN keys
            ELSE Append(keys, ls[i].node_id))

\* node_info[node_id]["subnode"]
SubNodes(ls, key) == SelectSeq(ls, LAMBDA l : l.node_id = key)

\* Lines 1185-1190: process_sub_flow("flow") on each group in turn.  Its
\* counting loop raises on a Results that is not text; otherwise the
\* group's detail graph is built and the summary node appended.
RECURSIVE MainFlowLoop(_, _, _, _, _)
MainFlowLoop(ls, keys, k, contact_id, fr) ==
    IF fr.raised \/ k > Len(keys) THEN fr
    ELSE MainFlowLoop(ls, keys, k + 1, contact_id,
            IF CountErrors(SubNodes(ls, keys[k]), 1, 0) = -1
            THEN [fr EXCEPT !.raised = TRUE]
            ELSE [fr EXCEPT
                    !.nodes = Append(@, MainNodeId(contact_id, keys[k]))])

\* The result of build_main_flow once the events are sorted (1166).
MainFlowOf(sorted, contact_id) ==
    MainFlowLoop(sorted, GroupKeys(sorted, 1, <<>>), 1, contact_id,
                 [nodes |-> <<>>, raised |-> FALSE, logs |-> sorted])

\* build_main_flow: sorts the events in place, groups them by node_id and
\* returns the summary nodes of the groups.
build_main_flow(ls, contact_id) == MainFlowOf(SortByTimestamp(ls), contact_id)

\* json.dumps of an attribute value (a text): the text between quotes.
json_dumps_text(v) == << "\"", v, "\"" >>

\* The test of lines 1251-1254 on one event.
IsSetter(log, k) ==
    /\ log.ContactFlowModuleType = "SetAttributes"
    /\ log.Parameters.t # "absent"
    /\ log.Parameters.Key = k

\* The first setter of k in the log (position 0: none).
FirstSetter(ls, k) ==
    IF \E j \in 1..Len(ls) : IsSetter(ls[j], k)
    THEN CHOOSE j \in 1..Len(ls) :
            IsSetter(ls[j], k) /\ \A h \in 1..(j - 1) : ~IsSetter(ls[h], k)
    ELSE 0

\* Lines 1248-1270: the entry of attribute k with value v.
AttrEntry(ls, k, v) ==
    IF FirstSetter(ls, k) = 0
    THEN [v |-> json_dumps_text(v), c |-> "", i |-> ""]
    ELSE [v |-> json_dumps_text(v),
          c |-> ls[FirstSetter(ls, k)].ContactFlowName,
          i |-> ls[FirstSetter(ls, k)].Identifier]

\* The entries of one interaction, by key.
AttrData(ls, attrs) ==
    [ k \in { p[1] : p \in attrs } |->
        AttrEntry(ls, k, (CHOOSE p \in attrs : p[1] = k)[2]) ]

\* `if entry["v"] and entry["c"] and entry["i"]: continue` (1276)
HasProvenance(e) == e.v # <<>> /\ e.c # "" /\ e.i # ""

\* Lines 1279-1289: every sibling in turn; a sibling's entry with the same
\* key and value overwrites the entry's value and provenance.
RECURSIVE BorrowLoop(_, _, _, _, _, _)
BorrowLoop(attr, order, j, my_id, k, entry) ==
    IF j > Len(order) THEN entry
    ELSE BorrowLoop(attr, order, j + 1, my_id, k,
            IF /\ order[j] # my_id
               /\ k \in DOMAIN attr[order[j]]
               /\ attr[order[j]][k].v = entry.v
            THEN [entry EXCEPT !.v = attr[order[j]][k].v,
                               !.c = attr[order[j]][k].c,
                               !.i = attr[order[j]][k].i]
            ELSE entry)

\* Lines 1275-1289 for one interaction.
ResolveContact(attr, order, my_id) ==
    [attr EXCEPT ![my_id] =
        [ k \in DOMAIN attr[my_id] |->
            IF HasProvenance(attr[my_id][k]) THEN attr[my_id][k]
            ELSE BorrowLoop(attr, order, 1, my_id, k, attr[my_id][k]) ]]

\* Lines 1274-1289: the provenance pass, interaction by interaction, each
\* seeing the entries as the earlier ones left them.
RECURSIVE ProvenancePass(_, _, _)
ProvenancePass(attr, order, n) ==
    IF n > Len(order) THEN attr
    ELSE ProvenancePass(ResolveContact(attr, order, order[n]), order, n + 1)

\* The contact ids of the interactions that have one, in list order.
RECURSIVE ContactOrder(_, _)
ContactOrder(cs, n) ==
    IF n > Len(cs) THEN <<>>
    ELSE IF cs[n].ContactId = "" THEN ContactOrder(cs, n + 1)
         ELSE << cs[n].ContactId >> \o ContactOrder(cs, n + 1)

\* The frame after build_main_flow returned r for contact cid (1298, 1344).
WithMainFlow(acc, cid, r) ==
    IF r.raised
    THEN [acc EXCEPT !.raised = TRUE]
    ELSE [acc EXCEPT !.nodes = (cid :> r.nodes) @@ @,
                     !.logs[cid] = r.logs]

\* Lines 1292-1344: the graph of every interaction of the list in turn.
\* subcontact_logs[contact_id] raises KeyError for a record that has no
\* ContactId; an exception of build_main_flow is not caught.
RECURSIVE BuildLoop(_, _, _)
BuildLoop(cs, n, acc) ==
    IF acc.raised \/ n > Len(cs) THEN acc
    ELSE BuildLoop(cs, n + 1,
            IF cs[n].ContactId \notin DOMAIN acc.logs
            THEN [acc EXCEPT !.raised = TRUE]
            ELSE WithMainFlow(acc, cs[n].ContactId,
                     build_main_flow(acc.logs[cs[n].ContactId],
                                     cs[n].ContactId)))

LinkEdge(tail, head, label, dir) ==
    [tail |-> tail, head |-> head, label |-> label, dir |-> dir]

\* The elif branch of lines 1370-1371.
PrevEdge(contact, sg, sn) ==
    IF /\ contact.PreviousContactId # ""
       /\ contact.PreviousContactId \in sg
       /\ Len(sn[contact.PreviousContactId]) > 0
       /\ Len(sn[contact.ContactId]) > 0
    THEN << LinkEdge(sn[contact.PreviousContactId]
                       [Len(sn[contact.PreviousContactId])],
                     sn[contact.ContactId][1],
                     contact.InitiationMethod, "forward") >>
    ELSE <<>>

\* LinkEdges without the branch of the related interaction.
LinkEdges_unrelated(contact, sg, sn) ==
    IF contact.RelatedContactId # ""
       /\ contact.RelatedContactId \notin DOMAIN sn
    THEN <<>>
    ELSE PrevEdge(contact, sg, sn)

\* The try block of lines 1367-1373 for one interaction: the edges it adds.
\* subgraph_nodes[related_id] raises KeyError for a related interaction
\* that is not in the set; the exception is caught and no edge is added.
LinkEdges(contact, sg, sn) ==
    IF contact.RelatedContactId # ""
    THEN IF contact.RelatedContactId \notin DOMAIN sn
         THEN <<>>
         ELSE IF /\ Len(sn[contact.RelatedContactId]) > 0
                 /\ Len(sn[contact.ContactId]) > 0
              THEN << LinkEdge(sn[contact.RelatedContactId]
                                 [Len(sn[contact.RelatedContactId])],
                               sn[contact.ContactId][1], "Related", "none") >>
              ELSE PrevEdge(contact, sg, sn)
    ELSE PrevEdge(contact, sg, sn)

\* Lines 1350-1373: the linking edges, interaction by interaction.
RECURSIVE LinkLoop(_, _, _, _)
LinkLoop(cs, n, sg, sn) ==
    IF n > Len(cs) THEN <<>>
    ELSE IF cs[n].ContactId = "" THEN LinkLoop(cs, n + 1, sg, sn)
         ELSE LinkEdges(cs[n], sg, sn) \o LinkLoop(cs, n + 1, sg, sn)

\* Lines 1358-1362: the interactions linked from the start node (those
\* without a predecessor and those with a related interaction).
RECURSIVE RootContacts(_, _)
RootContacts(cs, n) ==
    IF n > Len(cs) THEN <<>>
    ELSE IF /\ cs[n].ContactId # ""
            /\ (cs[n].PreviousContactId = "" \/ cs[n].RelatedContactId # "")
         THEN << [id |-> cs[n].ContactId, label |-> cs[n].InitiationMethod] >>
              \o RootContacts(cs, n + 1)
         ELSE RootContacts(cs, n + 1)

\* Lines 1375-1377: the edges from the start node, in root order.
RECURSIVE RootEdges(_, _, _)
RootEdges(roots, n, sn) ==
    IF n > Len(roots) THEN <<>>
    ELSE IF Len(sn[roots[n].id]) > 0
         THEN << LinkEdge(StartNode, sn[roots[n].id][1], roots[n].label,
                          "forward") >> \o RootEdges(roots, n + 1, sn)
         ELSE RootEdges(roots, n + 1, sn)

----------------------------------------------------------------------------
(* Specifications of build_main_contacts                                   *)

MaxContacts == 2      \* most interactions linked in one composition
MaxSiblings == 3      \* most interactions in one provenance pass

ContactIds == << "c1", "c2", "c3", "c4" >>
InitiationMethods == << "INBOUND", "TRANSFER", "API", "CALLBACK" >>

ContactEvent(ts, flow, type, res, params, node_id, identifier) ==
    [Timestamp |-> ts, ContactFlowName |-> flow,
     ContactFlowModuleType |-> type, Results |-> res,
     ExternalResults |-> ExtAbsent, Parameters |-> params,
     node_id |-> node_id, Identifier |-> identifier]

\* What fetch_logs returns for an interaction: no event; the events of two
\* flow groups, out of order; an event whose Results is null.
ContactLogKinds == { "none", "flow", "bad" }

LogsOfKind(kind) ==
    IF kind = "none" THEN <<>>
    ELSE IF kind = "flow"
    THEN << ContactEvent(2, "G", "PlayPrompt", ResAbsent, NoParams, "n2", "b2"),
            ContactEvent(1, "F", "PlayPrompt", ResAbsent, NoParams, "n1", "b1"),
            ContactEvent(2, "G", "PlayPrompt", ResText(<<"Error">>), NoParams,
                         "n2", "b3") >>
    ELSE << ContactEvent(1, "F", "PlayPrompt", [t |-> "none", v |-> <<>>],
                         NoParams, "n1", "b1") >>

Pred(i, n) == ContactIds[((i + n - 2) % n) + 1]
Succ(i, n) == ContactIds[(i % n) + 1]

\* The records the i-th of n interactions can be: without ContactId, or
\* with its id and a predecessor / related interaction (another one) that
\* is absent, in the set, or missing from the set ("c0").
LinkRecords(i, n) ==
    { [ContactId |-> "", PreviousContactId |-> "", RelatedContactId |-> "",
       InitiationMethod |-> InitiationMethods[i]] }
    \cup
    { [ContactId |-> ContactIds[i], PreviousContactId |-> p,
       RelatedContactId |-> r, InitiationMethod |-> InitiationMethods[i]] :
        p \in { "", Pred(i, n), "c0" } \ { ContactIds[i] },
        r \in { "", Pred(i, n), Succ(i, n), "c0" } \ { ContactIds[i] } }

RECURSIVE ContactLists(_, _)
ContactLists(n, i) ==
    IF i = 0 THEN { <<>> }
    ELSE { Append(s, r) : s \in ContactLists(n, i - 1), r \in LinkRecords(i, n) }

ContactIdSet(cs) == { cs[i].ContactId : i \in 1..Len(cs) } \ { "" }

ComposerIdle ==
    /\ logs = <<>>
    /\ lambda_logs = EmptyLambdaLogs
    /\ xray_store = {}
    /\ pc = "start"
    /\ Idle
    /\ subgraphs = {}
    /\ subgraph_nodes = << >>
    /\ subcontact_logs = << >>
    /\ subcontact_attr = << >>
    /\ root_contact_ids = <<>>

InitContacts ==
    /\ search_contacts \in UNION { ContactLists(n, n) : n \in 1..MaxContacts }
    /\ \E kinds \in [ContactIdSet(search_contacts) -> ContactLogKinds] :
          telemetry =
            [logs  |-> [c \in ContactIdSet(search_contacts) |->
                           LogsOfKind(kinds[c])],
             attrs |-> [c \in ContactIdSet(search_contacts) |-> {}]]
    /\ ComposerIdle

\* Lines 1221-1272: per interaction with a ContactId, its cluster, its
\* fetched events and its attribute entries.
FetchContacts ==
    /\ pc = "start"
    /\ pc' = "fetched"
    /\ subgraphs' = ContactIdSet(search_contacts)
    /\ subcontact_logs' = [c \in ContactIdSet(search_contacts) |->
                              telemetry.logs[c]]
    /\ subcontact_attr' = [c \in ContactIdSet(search_contacts) |->
                              AttrData(telemetry.logs[c], telemetry.attrs[c])]
    /\ UNCHANGED <<logs, lambda_logs, xray_store, index, nodes, dot,
                   node_cache, last_module_type, module_nodes, error_count,
                   edges, rendered, main_nodes, telemetry, is_error,
                   search_contacts, subgraph_nodes, root_contact_ids>>

\* Lines 1274-1289: the provenance pass.
ResolveProvenance ==
    /\ pc = "fetched"
    /\ pc' = "resolved"
    /\ subcontact_attr' = ProvenancePass(subcontact_attr,
                                         ContactOrder(search_contacts, 1), 1)
    /\ UNCHANGED <<logs, lambda_logs, xray_store, index, nodes, dot,
                   node_cache, last_module_type, module_nodes, error_count,
                   edges, rendered, main_nodes, telemetry, is_error,
                   search_contacts, subgraphs, subgraph_nodes,
                   subcontact_logs, root_contact_ids>>

\* Lines 1292-1344: the graphs of the interactions.
BuildContacts ==
    /\ pc = "resolved"
    /\ \E r \in { BuildLoop(search_contacts, 1,
                            [nodes |-> << >>, raised |-> FALSE,
                             logs |-> subcontact_logs]) } :
          /\ pc' = IF r.raised THEN "raised" ELSE "built"
          /\ subgraph_nodes' = r.nodes
          /\ subcontact_logs' = r.logs
    /\ UNCHANGED <<logs, lambda_logs, xray_store, index, nodes, dot,
                   node_cache, last_module_type, module_nodes, error_count,
                   edges, rendered, main_nodes, telemetry, is_error,
                   search_contacts, subgraphs, subcontact_attr,
                   root_contact_ids>>

\* Lines 1350-1379: the linking edges, then the edges from the start node.
LinkContacts ==
    /\ pc = "built"
    /\ pc' = "done"
    /\ root_contact_ids' = RootContacts(search_contacts, 1)
    /\ edges' = LinkLoop(search_contacts, 1, subgraphs, subgraph_nodes)
                \o RootEdges(RootContacts(search_contacts, 1), 1,
                             subgraph_nodes)
    /\ UNCHANGED <<logs, lambda_logs, xray_store, index, nodes, dot,
                   node_cache, last_module_type, module_nodes, error_count,
                   rendered, main_nodes, telemetry, is_error,
                   search_contacts, subgraphs, subgraph_nodes,
                   subcontact_logs, subcontact_attr>>

NextContacts ==
    FetchContacts \/ ResolveProvenance \/ BuildContacts \/ LinkContacts

SpecContacts == InitContacts /\ [][NextContacts]_vars

----------------------------------------------------------------------------
(* Composer: C13, C14, C19                                                 *)

Composed == pc = "done"

HasNodes(c) ==
    /\ c.ContactId \in DOMAIN subgraph_nodes
    /\ Len(subgraph_nodes[c.ContactId]) > 0

FirstNode(c) == subgraph_nodes[c.ContactId][1]

LastNode(c) == subgraph_nodes[c.ContactId][Len(subgraph_nodes[c.ContactId])]

HasEdge(e) == \E k \in 1..Len(edges) : edges[k] = e

\* C13: for two interactions A (no PreviousContactId) and B
\* (RelatedContactId = A) that both have nodes, the composed graph has an
\* edge from the start node to A's first node labeled with A's initiation
\* method and an undirected edge labeled "Related" from A's last node to
\* B's first node.
C13_RelatedPairIsLinked ==
    Composed =>
        \A a, b \in 1..Len(search_contacts) :
            LET A == search_contacts[a]
                B == search_contacts[b]
            IN  ( /\ a # b
                  /\ A.ContactId # ""
                  /\ B.ContactId # ""
                  /\ A.PreviousContactId = ""
                  /\ B.RelatedContactId = A.ContactId
                  /\ HasNodes(A)
                  /\ HasNodes(B) )
                => /\ HasEdge(LinkEdge(StartNode, FirstNode(A),
                                       A.InitiationMethod, "forward"))
                   /\ HasEdge(LinkEdge(LastNode(A), FirstNode(B),
                                       "Related", "none"))

\* A without predecessor or related interaction, B related to A, both with
\* two summary nodes: the two edges of the scenario are in the graph.
C13_Witness ==
    /\ Composed
    /\ Len(search_contacts) = 2
    /\ search_contacts[1].ContactId = "c1"
    /\ search_contacts[1].PreviousContactId = ""
    /\ search_contacts[1].RelatedContactId = ""
    /\ search_contacts[2].ContactId = "c2"
    /\ search_contacts[2].RelatedContactId = "c1"
    /\ Len(subgraph_nodes["c1"]) = 2
    /\ Len(subgraph_nodes["c2"]) = 2
    /\ HasEdge(LinkEdge(StartNode, MainNodeId("c1", "n1"), "INBOUND",
                        "forward"))
    /\ HasEdge(LinkEdge(MainNodeId("c1", "n2"), MainNodeId("c2", "n1"),
                        "Related", "none"))

\* C14: every interaction whose PreviousContactId is in the composed set,
\* both interactions having nodes, gets an edge from the predecessor's last
\* node to its own first node labeled with its initiation method, also when
\* it has a RelatedContactId.
C14_PredecessorIsLinked ==
    Composed =>
        \A a, b \in 1..Len(search_contacts) :
            LET A == search_contacts[a]
                B == search_contacts[b]
            IN  ( /\ a # b
                  /\ A.ContactId # ""
                  /\ B.ContactId # ""
                  /\ B.PreviousContactId = A.ContactId
                  /\ HasNodes(A)
                  /\ HasNodes(B) )
                => HasEdge(LinkEdge(LastNode(A), FirstNode(B),
                                    B.InitiationMethod, "forward"))

\* The graph of the interaction at position i cannot be built: the record
\* has no ContactId, or build_main_flow raises on its events.
BuildFails(i) ==
    \/ search_contacts[i].ContactId = ""
    \/ build_main_flow(telemetry.logs[search_contacts[i].ContactId],
                       search_contacts[i].ContactId).raised

\* C19: when the graph of one interaction cannot be built (or its record
\* has no ContactId), the composition still completes and the graphs of
\* the other interactions are in it.
C19_SiblingsSurviveFailure ==
    (pc \in {"built", "done", "raised"}) =>
        \A i, j \in 1..Len(search_contacts) :
            (BuildFails(i) /\ ~BuildFails(j))
            => /\ pc # "raised"
               /\ search_contacts[j].ContactId \in DOMAIN subgraph_nodes

----------------------------------------------------------------------------
(* Attribute provenance: C15                                               *)

\* What an interaction holds of the attribute "lang": nothing; the value
\* "ko" or "en" set by a SetAttributes block of its own log; the value "ko"
\* or "en" without a setter in its own log.
AttrKinds == { "unset", "set_ko", "set_en", "held_ko", "held_en" }

AttrsOfKind(kind) ==
    IF kind = "unset" THEN {}
    ELSE IF kind \in { "set_ko", "held_ko" } THEN { << "lang", "ko" >> }
    ELSE { << "lang", "en" >> }

\* The blocks of interaction cid carry cid as their Identifier.
AttrLogsOfKind(kind, cid) ==
    IF kind = "unset" THEN <<>>
    ELSE IF kind \in { "set_ko", "set_en" }
    THEN << ContactEvent(1, "F", "SetAttributes", ResAbsent,
                         AttrParams("lang"), "n1", cid) >>
    ELSE << ContactEvent(1, "F", "PlayPrompt", ResAbsent, NoParams, "n1",
                         cid) >>

SiblingLists ==
    { [ i \in 1..n |->
          [ContactId |-> ContactIds[i], PreviousContactId |-> "",
           RelatedContactId |-> "", InitiationMethod |-> InitiationMethods[i]] ] :
        n \in 1..MaxSiblings }

InitProvenance ==
    /\ search_contacts \in SiblingLists
    /\ \E kinds \in [ContactIdSet(search_contacts) -> AttrKinds] :
          telemetry =
            [logs  |-> [c \in ContactIdSet(search_contacts) |->
                           AttrLogsOfKind(kinds[c], c)],
             attrs |-> [c \in ContactIdSet(search_contacts) |->
                           AttrsOfKind(kinds[c])]]
    /\ ComposerIdle

SpecProvenance == InitProvenance /\ [][NextContacts]_vars

Resolved == pc \in { "resolved", "built", "done", "raised" }

\* The value interaction c holds for key k.
ValueOf(c, k) == (CHOOSE p \in telemetry.attrs[c] : p[1] = k)[2]

\* Interaction o holds key k with value v and a setter in its own log.
KnowsOrigin(o, k, v) ==
    /\ << k, v >> \in telemetry.attrs[o]
    /\ FirstSetter(telemetry.logs[o], k) # 0

OriginOf(o, k) ==
    [c |-> telemetry.logs[o][FirstSetter(telemetry.logs[o], k)].ContactFlowName,
     i |-> telemetry.logs[o][FirstSetter(telemetry.logs[o], k)].Identifier]

\* C15: after the provenance pass, every attribute of an interaction that
\* has no setter in its own log, and for which some sibling holds the same
\* key and value with a known provenance, displays the provenance of such a
\* sibling, for any number and order of siblings; its value is unchanged.
C15_ProvenanceIsBorrowed ==
    Resolved =>
        \A my \in DOMAIN subcontact_attr :
            \A k \in DOMAIN subcontact_attr[my] :
                ( /\ FirstSetter(telemetry.logs[my], k) = 0
                  /\ \E o \in DOMAIN subcontact_attr \ { my } :
                        KnowsOrigin(o, k, ValueOf(my, k)) )
                => /\ subcontact_attr[my][k].v = json_dumps_text(ValueOf(my, k))
                   /\ \E o \in DOMAIN subcontact_attr \ { my } :
                        /\ KnowsOrigin(o, k, ValueOf(my, k))
                        /\ subcontact_attr[my][k].c = OriginOf(o, k).c
                        /\ subcontact_attr[my][k].i = OriginOf(o, k).i

----------------------------------------------------------------------------
(* Deduplicator and node order: C21, C22, C23                              *)

InLoop == pc \in { "loop", "done" }

\* No event of another module type lies between two events of src (the
\* 0-based positions in evs of the events a bucket accumulated).
OneRun(evs, src) ==
    \A j \in 1..(Len(src) - 1) :
        \A p \in (src[j] + 1)..(src[j + 1] - 1) :
            evs[p + 1].ContactFlowModuleType
                = evs[src[1] + 1].ContactFlowModuleType

AggregatesAreRuns(evs, d) ==
    \A k \in 1..Len(d) : d[k].kind = "aggregate" => OneRun(evs, d[k].src)

\* C21: a bucket holds one consecutive run: once an event of another module
\* type (aggregatable or not) has followed the run, no later event is added
\* to the bucket or to the aggregate node it becomes.
C21_BucketIsOneRun ==
    InLoop => /\ \A b \in 1..Len(node_cache) : OneRun(logs, node_cache[b].src)
              /\ AggregatesAreRuns(logs, dot)
              /\ \A r \in ModuleGraphs :
                    AggregatesAreRuns(ModuleEvents(r), r[2].dot)

\* The events of evs an aggregate node stands for classify as errors.
AnyMemberIsError(evs, src) ==
    \E j \in 1..Len(src) : Truthy(classify(evs[src[j] + 1]))

ErrorFlagIsOr(evs, d) ==
    \A k \in 1..Len(d) :
        d[k].kind = "aggregate"
        => (d[k].color = "tomato" <=> AnyMemberIsError(evs, d[k].src))

\* C22: an aggregate node is error-colored if and only if at least one of
\* the events accumulated in its bucket classifies as an error, whatever
\* the position of that event in the run.
C22_ErrorFlagIsOrOfMembers ==
    InLoop => /\ ErrorFlagIsOr(logs, dot)
              /\ \A r \in ModuleGraphs : ErrorFlagIsOr(ModuleEvents(r), r[2].dot)

\* C23: the node list of build_contact_flow_detail is in non-decreasing
\* order of the timestamp of the first event each node stands for.
C23_NodesAreChronological ==
    InLoop => \A i \in 1..(Len(nodes) - 1) : nodes[i].ts <= nodes[i + 1].ts

----------------------------------------------------------------------------
(* Module summaries and omitted blocks: C24, C25                           *)

\* The module names among the events the loop has dealt with.
ModulesSeen ==
    { logs[i].ContactFlowName : i \in 1..index } \cap ModuleFlowNames

FirstEventOf(name) ==
    CHOOSE i \in 1..index :
        /\ logs[i].ContactFlowName = name
        /\ \A j \in 1..(i - 1) : logs[j].ContactFlowName # name

SummaryNodes == { k \in 1..Len(dot) : dot[k].kind = "summary" }

\* C24: in one pass of build_contact_flow_detail every module name met so
\* far has exactly one summary node, the one created at the module's first
\* event; later events of the module, also after the flow has left and
\* re-entered it, add no node.
C24_OneSummaryPerModule ==
    InLoop =>
        /\ Cardinality(SummaryNodes) = Cardinality(ModulesSeen)
        /\ \A name \in ModulesSeen :
              \E k \in SummaryNodes :
                 /\ dot[k].src = << FirstEventOf(name) - 1 >>
                 /\ dot[k].id = NodeId(logs[FirstEventOf(name)].Timestamp,
                                       ToString(FirstEventOf(name) - 1))

\* The flow enters module MOD_B, leaves it for a block of its own and
\* re-enters it: one summary node, then the block.
C24_Witness ==
    /\ Done
    /\ Len(logs) = 3
    /\ logs[1].ContactFlowName = "MOD_B"
    /\ logs[2].ContactFlowName = "F"
    /\ logs[2].ContactFlowModuleType = "PlayPrompt"
    /\ logs[3].ContactFlowName = "MOD_B"
    /\ Len(nodes) = 2
    /\ dot[1].kind = "summary"
    /\ dot[2].kind = "block"

\* The graph G built from the events evs has no node of its own for an
\* omitted event: no block, aggregate or trace node stands for it or
\* carries its id, and no edge ends at such a node.
OmittedHaveNoNode(evs, G) ==
    \A i \in 1..Len(evs) :
        evs[i].ContactFlowModuleType \in OMIT_CONTACT_FLOW_MODULE_TYPE
        => LET id == NodeId(evs[i].Timestamp, ToString(i - 1))
               own == { k \in 1..Len(G.dot) :
                          /\ G.dot[k].kind # "summary"
                          /\ \/ G.dot[k].id = id
                             \/ \E j \in 1..Len(G.dot[k].src) :
                                   G.dot[k].src[j] = i - 1 }
               summarized == \E k \in 1..Len(G.dot) :
                                G.dot[k].kind = "summary" /\ G.dot[k].id = id
           IN  /\ own = {}
               /\ ~summarized =>
                     /\ \A n \in 1..Len(G.nodes) : G.nodes[n] # id
                     /\ \A e \in 1..Len(G.edges) :
                           G.edges[e].tail # id /\ G.edges[e].head # id

C25_WitnessModule ==
    /\ Done
    /\ \E r \in ModuleGraphs :
          /\ Len(ModuleEvents(r)) = 1
          /\ ModuleEvents(r)[1].ContactFlowModuleType = "InvokeFlowModule"
          /\ r[2].nodes = <<>>

----------------------------------------------------------------------------
(* Telemetry is read only: C26                                             *)

\* C26: correlating an InvokeExternalResource event leaves the telemetry
\* unchanged: when add_block_nodes is over, the event record and every
\* function log entry have the keys and values they were read with.
C26_TelemetryIsUnchanged ==
    Returned => /\ logs = telemetry.logs
                /\ lambda_logs = telemetry.lambda_logs

----------------------------------------------------------------------------
(* Specification of build_main_flow with the detail graphs of its groups   *)

MaxGroupLogs == 3     \* most events of one interaction

\* The flow an event was logged under: its own, or for a module event the
\* flow that invoked the module (ModuleExecutionStack[1]).
ParentOf(e) ==
    IF e.ContactFlowName \in ModuleFlowNames
    THEN e.ModuleExecutionStack[2]
    ELSE e.ContactFlowName

\* A block of flow `flow` run under the flow `parent`, in the group node_id.
GroupEvent(ts, flow, parent, node_id) ==
    [Timestamp |-> ts, ContactId |-> "c1", ContactFlowName |-> flow,
     ContactFlowModuleType |-> "PlayPrompt", Results |-> ResAbsent,
     ExternalResults |-> ExtAbsent, Parameters |-> NoParams,
     ModuleExecutionStack |-> IF flow \in ModuleFlowNames
                              THEN << flow, parent >> ELSE <<>>,
     node_id |-> node_id]

\* Group n1 runs flow F and the modules MOD_A and MOD_B; group n2 runs flow
\* F again, or flow G, and module MOD_A.
GroupEvents ==
    { GroupEvent(ts, flow, "F", "n1") :
        ts \in Timestamps, flow \in { "F", "MOD_A", "MOD_B" } }
    \cup
    { GroupEvent(ts, flow, "F", "n2") :
        ts \in Timestamps, flow \in { "F", "MOD_A" } }
    \cup
    { GroupEvent(ts, flow, "G", "n2") :
        ts \in Timestamps, flow \in { "G", "MOD_A" } }

\* The events of one interaction, in any order; a group runs one flow.
MainInputs ==
    { s \in UNION { [1..n -> GroupEvents] : n \in 1..MaxGroupLogs } :
        \A i, j \in 1..Len(s) :
            s[i].node_id = s[j].node_id => ParentOf(s[i]) = ParentOf(s[j]) }

InitMain ==
    /\ logs \in MainInputs
    /\ lambda_logs = FlowLambdaLogs
    /\ xray_store = {"t1"}
    /\ telemetry = [logs |-> logs, lambda_logs |-> lambda_logs]
    /\ pc = "main"
    /\ Idle
    /\ NoContacts

\* info['contact_flow_name']: the flow name of the group's last event that
\* is not a module event (lines 1179-1180), "" when it has none.
GroupFlowName(l_logs) ==
    LET own == SelectSeq(l_logs,
                         LAMBDA l : l.ContactFlowName \notin ModuleFlowNames)
    IN  IF own = <<>> THEN "" ELSE own[Len(own)].ContactFlowName

\* f"./virtual_env/{flow_type}_{contact_id}_{node_id}{module_stack}" with
\* node_id = f"{contact_id}_{log['node_id']}" (lines 791, 1176).
MainFlowFile(contact_id, key, l_name) ==
    [kind |-> "flow", contact_id |-> contact_id, node_id |-> key,
     stack |-> << l_name >>]

\* The events of ls with those of group key replaced, in order, by sub.
WriteBack(ls, key, sub) ==
    [ i \in 1..Len(ls) |->
        IF ls[i].node_id = key
        THEN sub[Cardinality({ j \in 1..i : ls[j].node_id = key })]
        ELSE ls[i] ]

\* Line 1166: the interaction's events are sorted in place.
SortMain ==
    /\ pc = "main"
    /\ pc' = "groups"
    /\ logs' = SortByTimestamp(logs)
    /\ UNCHANGED <<lambda_logs, xray_store, index, nodes, dot, node_cache,
                   last_module_type, module_nodes, error_count, edges,
                   rendered, main_nodes, telemetry, is_error>>
    /\ UNCHANGED contactVars

\* One iteration of the loop of lines 1185-1190: process_sub_flow("flow")
\* on the next group counts its errors, builds its detail graph (rendering
\* the sub-graphs of its modules on the way), renders it and appends the
\* group's summary node.
BuildGroup ==
    /\ pc = "groups"
    /\ index < Len(GroupKeys(logs, 1, <<>>))
    /\ \E key \in { GroupKeys(logs, 1, <<>>)[index + 1] } :
       \E counted \in { CountErrors(SubNodes(logs, key), 1, 0) } :
          IF counted = -1
          THEN /\ pc' = "raised"
               /\ UNCHANGED <<logs, lambda_logs, nodes, main_nodes, rendered,
                              error_count>>
          ELSE \E d \in { build_contact_flow_detail(SubNodes(logs, key), "c1",
                              lambda_logs, counted, xray_store, rendered) } :
               \E file \in { MainFlowFile("c1", key,
                                 GroupFlowName(SubNodes(logs, key))) } :
                  IF d.raised
                  THEN /\ pc' = "raised"
                       /\ rendered' = d.rendered
                       /\ UNCHANGED <<logs, lambda_logs, nodes, main_nodes,
                                      error_count>>
                  ELSE /\ pc' = "groups"
                       /\ logs' = WriteBack(logs, key, d.logs)
                       /\ lambda_logs' = d.lambda_logs
                       /\ error_count' = d.error_count
                       /\ rendered' =
                             { r \in d.rendered : r[1] # file }
                             \cup { << file,
                                       [nodes |-> d.nodes, dot |-> d.dot,
                                        edges |-> add_edges(d.nodes, 1, <<>>)] >> }
                       /\ main_nodes' = Append(main_nodes,
                             [id |-> MainNodeId("c1", key), kind |-> "summary",
                              color |-> IF d.error_count > 0 THEN "tomato"
                                        ELSE "lightgray",
                              URL |-> file])
                       /\ nodes' = Append(nodes, MainNodeId("c1", key))
    /\ index' = index + 1
    /\ UNCHANGED <<xray_store, dot, node_cache, last_module_type,
                   module_nodes, edges, telemetry, is_error>>
    /\ UNCHANGED contactVars

\* Lines 1192-1196: the edges of the main flow graph.
FinishMain ==
    /\ pc = "groups"
    /\ index = Len(GroupKeys(logs, 1, <<>>))
    /\ pc' = "done"
    /\ edges' = add_edges(nodes, 1, <<>>)
    /\ UNCHANGED <<logs, lambda_logs, xray_store, index, nodes, dot,
                   node_cache, last_module_type, module_nodes, error_count,
                   rendered, main_nodes, telemetry, is_error>>
    /\ UNCHANGED contactVars

NextMain == SortMain \/ BuildGroup \/ FinishMain

SpecMain == InitMain /\ [][NextMain]_vars

----------------------------------------------------------------------------
(* Artifacts: C27                                                          *)

\* The nested units of the interaction: its flow groups and, per group, the
\* modules the group's events ran.
NestedUnits ==
    { << "flow", logs[i].node_id, "" >> : i \in 1..Len(logs) }
    \cup
    { << "module", logs[i].node_id, logs[i].ContactFlowName >> :
        i \in { j \in 1..Len(logs) :
                  logs[j].ContactFlowName \in ModuleFlowNames } }

\* C27: two distinct nested units of an interaction are never rendered to
\* the same artifact path: when build_main_flow is over there are as many
\* artifacts as units (flow groups and modules of flow groups).
C27_ArtifactsAreDistinct ==
    pc = "done" => Cardinality({ r[1] : r \in rendered })
                      = Cardinality(NestedUnits)

====
